---- MODULE Spec2Model ----
(***************************************************************************)
(* Model of main_pipeline.py: the per-ticker chain                         *)
(*   ingest_data -> clean_data -> transform_data -> validate_pipeline      *)
(*   -> store_data, driven by run_data_pipeline, plus retrieve_data.       *)
(*                                                                         *)
(* Numbers are fixed-point integers: a value v of the program is the       *)
(* integer v * Unit.  Provider values are whole numbers, so the quartile   *)
(* interpolation (/4) and the fence (1.5 * IQR) of two successive          *)
(* clean_data passes are exact.  A cell is <<>> (NaN), <<v>> (a number) or *)
(* a two-element tuple (a non-numeric provider value).                     *)
(* Dates are integers yyyymmdd, which order as the ISO text SQLite stores. *)
(* Indicator columns are represented by their names only.                  *)
(***************************************************************************)
EXTENDS Integers, Sequences, FiniteSets, TLC

VARIABLES
    pc,                 \* position of run_data_pipeline / ingest_data
    run,                \* number of the current run against the same DB_NAME
    idx,                \* position in TICKERS of the ticker being processed
    ticker,             \* argument of ingest_data
    retry_count,        \* argument of ingest_data
    attempt,            \* loop variable of ingest_data
    requests,           \* number of yf.download calls of this ingest_data call
    attempt_log,        \* what each attempt of this ingest_data call did
    raw_df,             \* value returned by ingest_data
    successful_tickers, \* list built by run_data_pipeline
    failed_tickers,     \* list reported in the summary
    processed,          \* tickers whose loop iteration has finished, in order
    outcome,            \* per ticker: what its loop iteration did in this run
    db,                 \* the SQLite file DB_NAME
    removed_db,         \* this run removed a pre-existing database file
    sample_data,        \* result of the sample query of the summary
    cl_pc, cl_in, cl_once, cl_twice,     \* clean_data applied once and twice
    tr_pc, tr_in, tr_out,                \* transform_data applied to a frame
    st_pc, st_appends, st_query, st_result \* store_data / retrieve_data calls

vars == <<pc, run, idx, ticker, retry_count, attempt, requests, attempt_log,
          raw_df, successful_tickers, failed_tickers, processed, outcome, db,
          removed_db, sample_data, cl_pc, cl_in, cl_once, cl_twice,
          tr_pc, tr_in, tr_out, st_pc, st_appends, st_query, st_result>>

ingestVars == <<ticker, retry_count, attempt, requests, attempt_log, raw_df>>
runVars    == <<run, idx, successful_tickers, failed_tickers, processed,
                outcome, removed_db, sample_data>>
cleanVars  == <<cl_pc, cl_in, cl_once, cl_twice>>
transVars  == <<tr_pc, tr_in, tr_out>>
storeVars  == <<st_pc, st_appends, st_query, st_result>>

----------------------------------------------------------------------------
(* Bounds *)

NumTickers  == 2    \* length of the prefix of the ticker list that is run
MaxRuns     == 2    \* consecutive runs against the same database file
MaxRetry    == 4    \* largest retry_count tried on ingest_data alone
ShortLen    == 4    \* a series below every indicator gate
LongLen     == 10   \* a series that reaches the first indicator gate
MaxCleanLen == 5    \* longest series given to clean_data alone
MaxLen      == 52   \* longest series given to transform_data alone
MaxAppends  == 2    \* store_data calls before retrieve_data is tried

----------------------------------------------------------------------------
(* Program constants *)

ALL_TICKERS == <<"AAPL", "MSFT", "GOOG", "AMZN", "TSLA",
                 "NVDA", "JPM", "V", "PG", "KO">>
TICKERS == SubSeq(ALL_TICKERS, 1, NumTickers)

DEFAULT_RETRY_COUNT == 3

required_ohlcv_cols == <<"open", "high", "low", "close", "volume">>

MinSMA10 == 10
MinSMA50 == 50
MinBollinger == 20
MinRSI == 14
MinVolatility == 20

Unit == 8 * 8

----------------------------------------------------------------------------
(* Cells, rows and frames *)

NaN == <<>>
Num(v) == <<v>>
NonNumeric == <<0, 0>>
IsNaN(c) == c = NaN
Value(c) == c[1]

Range(s) == {s[i] : i \in DOMAIN s}
SeqMax(S) == CHOOSE x \in S : \A y \in S : y <= x
SeqMin(S) == CHOOSE x \in S : \A y \in S : x <= y

Row(d, o, h, l, c, v) ==
    [date |-> d, open |-> o, high |-> h, low |-> l, close |-> c, volume |-> v]

\* pd.DataFrame(): no column, no row, a RangeIndex
EmptyDF == [cols |-> {}, ticker |-> "", index_dt |-> FALSE, numeric |-> {},
            rows |-> <<>>]

\* DataFrame.empty: some axis has length 0
df_empty(df) == df.cols = {} \/ df.rows = <<>>

\* a sequence given as a function, as the tuple of its values
AsTuple(f) == f \o <<>>

Column(rows, c) == AsTuple([i \in DOMAIN rows |-> rows[i][c]])
SetColumn(rows, c, vals) ==
    AsTuple([i \in DOMAIN rows |-> [rows[i] EXCEPT ![c] = vals[i]]])

\* the i-th trading day: 4 days a month, 12 months a year, from 2020-01-01
TradingDay(i) ==
    (2020 + ((i - 1) \div 48)) * 10000 + ((((i - 1) \div 4) % 12) + 1) * 100
        + ((i - 1) % 4) + 1
YearOf(d) == d \div 10000
MonthOf(d) == (d \div 100) % 100

----------------------------------------------------------------------------
(* Column labels of the provider, as characters *)

Chars(name) ==
    CASE name = "open"   -> <<"o", "p", "e", "n">>
      [] name = "high"   -> <<"h", "i", "g", "h">>
      [] name = "low"    -> <<"l", "o", "w">>
      [] name = "close"  -> <<"c", "l", "o", "s", "e">>
      [] name = "volume" -> <<"v", "o", "l", "u", "m", "e">>

LowerChar(ch) ==
    CASE ch = "O" -> "o" [] ch = "H" -> "h" [] ch = "L" -> "l"
      [] ch = "C" -> "c" [] ch = "V" -> "v" [] ch = "A" -> "a"
      [] OTHER -> ch

\* col.lower().replace(' ', '_')
NormalizeLabel(s) ==
    [i \in DOMAIN s |-> IF LowerChar(s[i]) = " " THEN "_" ELSE LowerChar(s[i])]

L_Open     == <<"O", "p", "e", "n">>
L_High     == <<"H", "i", "g", "h">>
L_Low      == <<"L", "o", "w">>
L_Close    == <<"C", "l", "o", "s", "e">>
L_Volume   == <<"V", "o", "l", "u", "m", "e">>
L_AdjClose == <<"A", "d", "j", " ", "C", "l", "o", "s", "e">>
L_UpVolume == <<"V", "O", "L", "U", "M", "E">>

TitleLabels == {L_Open, L_High, L_Low, L_Close, L_Volume}

\* the column index of a provider frame: flat labels, or (label, ticker) pairs
LabelSets ==
    { TitleLabels,
      TitleLabels \cup {L_AdjClose},
      (TitleLabels \ {L_Volume}) \cup {L_UpVolume},
      TitleLabels \ {L_Volume},
      (TitleLabels \ {L_Close}) \cup {L_AdjClose},
      {L_AdjClose} }

\* df.columns.get_level_values(0) of a MultiIndex, then the normalisation
ProcessedColumns(resp) ==
    { NormalizeLabel(IF resp.multi THEN l[1] ELSE l) : l \in resp.labels }

----------------------------------------------------------------------------
(* What the provider can answer to one yf.download call *)

\* the data of a provider frame: "gaps" has missing and non-numeric values,
\* "spike" has outliers, "nonpos" has no positive price, "allnan" has no value
RawRow(L, pat, i) ==
    CASE pat = "gaps" ->
           Row(TradingDay(i), IF i = 2 THEN NaN ELSE Num(10 * Unit),
               Num(12 * Unit), IF i = L THEN NaN ELSE Num(9 * Unit),
               IF i = 1 THEN NaN ELSE IF i = 3 THEN NonNumeric
                                  ELSE Num((10 + i) * Unit),
               IF i = L THEN NaN ELSE Num(100 * Unit))
      [] pat = "spike" ->
           Row(TradingDay(i), Num(10 * Unit), Num(12 * Unit), Num(9 * Unit),
               Num(IF i = 1 THEN 1000 * Unit ELSE (10 + (i % 3)) * Unit),
               Num(IF i = L THEN 0 ELSE (50 + (i % 2)) * Unit))
      [] pat = "nonpos" ->
           Row(TradingDay(i), Num(0), Num(0), Num(0), Num(0), Num(100 * Unit))
      [] pat = "allnan" ->
           Row(TradingDay(i), NaN, NaN, NaN, NaN, NaN)

RawRows(L, pat) == AsTuple([i \in 1..L |-> RawRow(L, pat, i)])

RawData == {<<>>, RawRows(ShortLen, "gaps"), RawRows(LongLen, "spike"),
            RawRows(ShortLen, "nonpos"), RawRows(ShortLen, "allnan")}

Raise == [kind |-> "raise", multi |-> FALSE, labels |-> {}, index_ok |-> FALSE,
          rows |-> <<>>]

ResponsesFor(t) ==
    {Raise} \cup
    { [kind |-> "frame", multi |-> m,
       labels |-> IF m THEN {<<l, <<t>>>> : l \in ls} ELSE ls,
       index_ok |-> ok, rows |-> rows] :
        m \in BOOLEAN, ls \in LabelSets, ok \in BOOLEAN, rows \in RawData }

----------------------------------------------------------------------------
(* ingest_data *)

\* pd.to_numeric(errors='coerce')
ToNumeric(c) == IF Len(c) = 1 THEN c ELSE NaN

CoerceRow(r) ==
    [date |-> r.date, open |-> ToNumeric(r.open), high |-> ToNumeric(r.high),
     low |-> ToNumeric(r.low), close |-> ToNumeric(r.close),
     volume |-> ToNumeric(r.volume)]

\* missing_cols of one attempt
missing_cols(resp) ==
    {c \in Range(required_ohlcv_cols) : Chars(c) \notin ProcessedColumns(resp)}

\* an ingest that raises on a frame it cannot use, and so retries
StructuralReturn_Retried(resp, what) == [raised |-> TRUE, what |-> what, df |-> EmptyDF]

\* the response is not retried when it has no row or lacks a required column
StructuralReturn(resp, what) == [raised |-> FALSE, what |-> what, df |-> EmptyDF]

\* the body of the try block of one attempt
ingest_attempt(t, resp) ==
    IF resp.kind = "raise"
    THEN [raised |-> TRUE, what |-> "raise", df |-> EmptyDF]
    ELSE IF resp.rows = <<>> \/ resp.labels = {}
    THEN StructuralReturn(resp, "empty")
    ELSE IF missing_cols(resp) # {}
    THEN StructuralReturn(resp, "missing")
    ELSE IF ~resp.index_ok
    THEN [raised |-> TRUE, what |-> "error", df |-> EmptyDF]
    ELSE [raised |-> FALSE, what |-> "ok",
          df |-> [cols |-> Range(required_ohlcv_cols) \cup {"ticker"},
                  ticker |-> t, index_dt |-> TRUE,
                  numeric |-> Range(required_ohlcv_cols),
                  rows |-> AsTuple([i \in DOMAIN resp.rows |->
                                      CoerceRow(resp.rows[i])])]]

\* what is seen of one attempt: did it raise, and was the provider's answer
\* a frame without rows, or a frame that lacks a required column
Seen(resp, r) ==
    [raised |-> r.raised,
     zero_rows |-> resp.kind = "frame" /\ (resp.rows = <<>> \/ resp.labels = {}),
     lacks |-> resp.kind = "frame"
               /\ \E c \in Range(required_ohlcv_cols) :
                     \A l \in resp.labels :
                        NormalizeLabel(IF resp.multi THEN l[1] ELSE l) # Chars(c)]

\* what one attempt can come to, over everything the provider can answer
AttemptTable ==
    [t \in Range(ALL_TICKERS) |->
        {[r |-> ingest_attempt(t, resp), seen |-> Seen(resp, ingest_attempt(t, resp))] :
            resp \in ResponsesFor(t)}]

AttemptResults(t) == AttemptTable[t]

\* a retry loop that runs once too often
HasAttempt_OffByOne(a, n) == a <= n

\* for attempt in range(retry_count): is there another attempt to make
HasAttempt(a, n) == a < n

\* if attempt == retry_count - 1
LastAttempt(a, n) == a = n - 1

\* One iteration of the retry loop, or the return after the loop.
IngestStep ==
    /\ pc = "ingest"
    /\ IF ~HasAttempt(attempt, retry_count)
       THEN /\ raw_df' = EmptyDF
            /\ pc' = "ingested"
            /\ UNCHANGED <<attempt, requests, attempt_log>>
       ELSE \E a \in AttemptResults(ticker) :
              /\ requests' = requests + 1
              /\ attempt_log' = Append(attempt_log, a.seen)
              /\ IF a.r.raised /\ ~LastAttempt(attempt, retry_count)
                 THEN /\ attempt' = attempt + 1
                      /\ UNCHANGED <<raw_df, pc>>
                 ELSE /\ raw_df' = a.r.df
                      /\ pc' = "ingested"
                      /\ UNCHANGED attempt
    /\ UNCHANGED <<ticker, retry_count>>
    /\ UNCHANGED <<runVars, db, cleanVars, transVars, storeVars>>

----------------------------------------------------------------------------
(* clean_data *)

ohlcv_cols == <<"open", "high", "low", "close", "volume">>

\* a forward fill that reaches one row only (ffill(limit=1))
ffill_Limit1(s) ==
    AsTuple([i \in DOMAIN s |->
        IF ~IsNaN(s[i]) THEN s[i]
        ELSE IF i > 1 /\ ~IsNaN(s[i - 1]) THEN s[i - 1]
        ELSE NaN])

\* Series.ffill(): the most recent prior valid observation
ffill(s) ==
    AsTuple([i \in DOMAIN s |->
        LET J == {j \in 1..i : ~IsNaN(s[j])}
        IN  IF J = {} THEN NaN ELSE s[SeqMax(J)]])

\* Series.bfill(): the next valid observation
bfill(s) ==
    AsTuple([i \in DOMAIN s |->
        LET J == {j \in i..Len(s) : ~IsNaN(s[j])}
        IN  IF J = {} THEN NaN ELSE s[SeqMin(J)]])

\* df[col] = df[col].ffill().bfill()
FillColumn(rows, c, cols) ==
    IF c \in cols THEN SetColumn(rows, c, bfill(ffill(Column(rows, c)))) ELSE rows

FillAll(rows, cols) ==
    FillColumn(FillColumn(FillColumn(FillColumn(FillColumn(rows,
        "open", cols), "high", cols), "low", cols), "close", cols), "volume", cols)

\* df.dropna(subset=<the ohlcv columns present>, how='all')
DropAllNaN(rows, cols) ==
    SelectSeq(rows, LAMBDA r : \E c \in Range(ohlcv_cols) \cap cols : ~IsNaN(r[c]))

\* the valid values of a column, ascending
SortedValues(col) ==
    LET valid == SelectSeq(col, LAMBDA c : ~IsNaN(c))
    IN  SortSeq(AsTuple([i \in DOMAIN valid |-> Value(valid[i])]),
                LAMBDA a, b : a < b)

\* Series.quantile(num / 4), linear interpolation between order statistics
Quantile(v, num) ==
    LET h == num * (Len(v) - 1)
        k == h \div 4
        r == h % 4
    IN  IF r = 0 THEN v[k + 1] ELSE v[k + 1] + (r * (v[k + 2] - v[k + 1])) \div 4

lower_bound(Q1, IQR) == Q1 - (3 * IQR) \div 2
upper_bound(Q3, IQR) == Q3 + (3 * IQR) \div 2

\* the two np.where assignments
ClipCell(c, lo, hi) ==
    IF IsNaN(c) THEN c
    ELSE IF Value(c) < lo THEN Num(lo)
    ELSE IF Value(c) > hi THEN Num(hi)
    ELSE c

\* the two np.where assignments over the column
ClipRows(rows, c, lo, hi) ==
    SetColumn(rows, c, AsTuple([i \in DOMAIN rows |-> ClipCell(rows[i][c], lo, hi)]))

\* "if IQR > 0"
ClipQuartiles(rows, c, Q1, Q3) ==
    IF Q3 - Q1 > 0
    THEN ClipRows(rows, c, lower_bound(Q1, Q3 - Q1), upper_bound(Q3, Q3 - Q1))
    ELSE rows

\* a column without a valid value has NaN quartiles, and NaN > 0 is false
ClipSorted(rows, c, v) ==
    IF Len(v) = 0 THEN rows
    ELSE ClipQuartiles(rows, c, Quantile(v, 1), Quantile(v, 3))

\* the body of "for col in ['close', 'volume']"
ClipColumn(rows, c, cols) ==
    IF c \in cols /\ Len(rows) > 0
    THEN ClipSorted(rows, c, SortedValues(Column(rows, c)))
    ELSE rows

\* df.sort_index(inplace=True)
SortIndex(rows) == SortSeq(rows, LAMBDA a, b : a.date < b.date)

clean_data(df) ==
    IF df_empty(df) THEN df
    ELSE [df EXCEPT !.rows =
            SortIndex(ClipColumn(ClipColumn(DropAllNaN(FillAll(@, df.cols), df.cols),
                                            "close", df.cols), "volume", df.cols))]

----------------------------------------------------------------------------
(* transform_data *)

\* gates that open one observation late
GatedColumns_Strict(L) ==
    (IF L > MinSMA10 THEN {"SMA_10", "EMA_10"} ELSE {})
    \cup (IF L > MinSMA50 THEN {"SMA_50", "EMA_50"} ELSE {})
    \cup (IF L > MinBollinger
          THEN {"BB_Middle", "BB_StdDev", "BB_Upper", "BB_Lower"} ELSE {})
    \cup (IF L > MinRSI THEN {"RSI"} ELSE {})
    \cup {"Daily_Return"}
    \cup (IF L > MinVolatility THEN {"Volatility_20D"} ELSE {})

\* the columns each "if len(df) >= n" block adds
GatedColumns(L) ==
    (IF L >= MinSMA10 THEN {"SMA_10", "EMA_10"} ELSE {})
    \cup (IF L >= MinSMA50 THEN {"SMA_50", "EMA_50"} ELSE {})
    \cup (IF L >= MinBollinger
          THEN {"BB_Middle", "BB_StdDev", "BB_Upper", "BB_Lower"} ELSE {})
    \cup (IF L >= MinRSI THEN {"RSI"} ELSE {})
    \cup {"Daily_Return"}
    \cup (IF L >= MinVolatility THEN {"Volatility_20D"} ELSE {})

transform_data(df) ==
    IF df_empty(df) THEN df
    ELSE IF "close" \notin df.cols THEN df
    ELSE [df EXCEPT !.cols = @ \cup GatedColumns(Len(df.rows))
                               \cup (IF "open" \in df.cols
                                     THEN {"Close_Open_Diff"} ELSE {}),
                    !.numeric = @ \cup GatedColumns(Len(df.rows))
                               \cup (IF "open" \in df.cols
                                     THEN {"Close_Open_Diff"} ELSE {})]

----------------------------------------------------------------------------
(* validate_pipeline *)

essential_cols == {"open", "high", "low", "close", "volume", "ticker"}
numeric_cols == {"open", "high", "low", "close", "volume"}

NaNCount(rows, c) == Cardinality({i \in DOMAIN rows : IsNaN(rows[i][c])})

\* the six assertions, in order
ChecksPass(df) ==
    /\ ~df_empty(df)
    /\ essential_cols \subseteq df.cols
    /\ \A c \in numeric_cols : c \in df.cols => c \in df.numeric
    /\ df.index_dt
    /\ \A i \in DOMAIN df.rows :
          ~IsNaN(df.rows[i].close) /\ Value(df.rows[i].close) > 0
    /\ \A c \in {"close", "volume"} :
          c \in df.cols => 10 * NaNCount(df.rows, c) < Len(df.rows)

\* unexpected is an error other than AssertionError raised inside the try
validate_pipeline(df, unexpected) ==
    IF unexpected THEN FALSE ELSE ChecksPass(df)

----------------------------------------------------------------------------
(* store_data and retrieve_data *)

\* the file DB_NAME and its one table 'ohlc_processed_data'
NoDB == [exists |-> FALSE, has_table |-> FALSE, cols |-> {}, rows |-> <<>>]

\* what can go wrong in one store_data call: sqlite3.connect raises, the
\* CREATE TABLE of to_sql raises, the INSERT of to_sql raises
StoreFaults == {"none", "connect", "create", "insert"}

\* the rows to_sql writes: the index as 'date', the ticker, year and month
StoredRows(df) ==
    AsTuple([i \in DOMAIN df.rows |->
        [ticker |-> df.ticker, date |-> df.rows[i].date,
         year |-> YearOf(df.rows[i].date), month |-> MonthOf(df.rows[i].date),
         open |-> df.rows[i].open, high |-> df.rows[i].high,
         low |-> df.rows[i].low, close |-> df.rows[i].close,
         volume |-> df.rows[i].volume]])

\* an INSERT that commits row by row: a failure leaves the rows written so far
InsertRows_Partial(d, cols, new_rows, fault) ==
    IF ~(cols \subseteq d.cols) THEN d
    ELSE IF fault = "insert" THEN [d EXCEPT !.rows = @ \o SubSeq(new_rows, 1, 1)]
    ELSE [d EXCEPT !.rows = @ \o new_rows]

\* The INSERT of df.to_sql(if_exists='append'): pandas runs all rows in one
\* transaction and rolls it back on any error, so it appends every row or none.
\* It fails when the frame has a column the existing table lacks.
InsertRows(d, cols, new_rows, fault) ==
    IF ~(cols \subseteq d.cols) \/ fault = "insert"
    THEN d
    ELSE [d EXCEPT !.rows = @ \o new_rows]

\* df.to_sql(table_name, conn, if_exists='append', index=True, index_label='date')
to_sql(d, df, fault) ==
    LET cols == df.cols \cup {"date", "year", "month"} IN
    IF d.has_table
    THEN InsertRows(d, cols, StoredRows(df), fault)
    ELSE IF fault = "create"
    THEN d
    ELSE InsertRows([d EXCEPT !.has_table = TRUE, !.cols = cols],
                    cols, StoredRows(df), fault)

\* the database after store_data(df, DB_NAME, 'ohlc_processed_data');
\* every error is caught inside store_data
store_data(df, d, fault) ==
    IF df_empty(df) THEN d
    ELSE IF fault = "connect" THEN d
    ELSE IF ~df.index_dt THEN [d EXCEPT !.exists = TRUE]
    ELSE to_sql([d EXCEPT !.exists = TRUE], df, fault)

\* an optional argument: <<>> is None, <<v>> is the value v
None == <<>>
TruthyStr(a) == a # None /\ a[1] # ""
TruthyInt(a) == a # None /\ a[1] # 0

\* a WHERE clause that forgets the ticker
Matches_NoTicker(r, tkr, year, month) ==
    /\ TruthyInt(year) => r.year = year[1]
    /\ TruthyInt(month) => r.month = month[1]

\* the WHERE clause built from the conditions list
Matches(r, tkr, year, month) ==
    /\ TruthyStr(tkr) => r.ticker = tkr[1]
    /\ TruthyInt(year) => r.year = year[1]
    /\ TruthyInt(month) => r.month = month[1]

\* ORDER BY date
OrderByDate(rows) == SortSeq(rows, LAMBDA a, b : a.date < b.date)

\* what can go wrong in one retrieve_data call: sqlite3.connect raises, the
\* read raises
RetrieveFaults == {"none", "connect", "read"}

\* sqlite3.connect creates the file when it is absent
Connected(d, fault) == IF fault = "connect" THEN d ELSE [d EXCEPT !.exists = TRUE]

\* the rows retrieve_data returns; an empty frame on any error
retrieve_data(d, tkr, year, month, fault) ==
    IF fault # "none" \/ ~d.has_table
    THEN <<>>
    ELSE OrderByDate(SelectSeq(d.rows, LAMBDA r : Matches(r, tkr, year, month)))

----------------------------------------------------------------------------
(* run_data_pipeline *)

\* what one loop iteration did for its ticker
Pending == [stage |-> "pending", valid |-> "none", store_called |-> FALSE,
            store_fault |-> "none", df |-> EmptyDF]

\* an error raised by clean_data or transform_data, or inside validate_pipeline
StageFaults == {"none", "clean", "transform", "validate"}

\* a run that keeps the file of the run before
RemoveExisting_Keep(d) == d

\* os.remove(DB_NAME)
RemoveExisting(d) == NoDB

\* a pipeline that stores whatever the validator says
SkipAfterValidation_Never(ok) == FALSE

\* "if not validate_pipeline(transformed_df): continue"
SkipAfterValidation(ok) == ~ok

\* the database once store_data has returned to run_data_pipeline
AfterStore(df, d, fault) == store_data(df, d, fault)

\* a pipeline that counts a ticker as succeeded only when its rows were written
RecordSuccess_OnlyIfWritten(d_before, d_after) ==
    Len(d_after.rows) > Len(d_before.rows)

\* is the ticker appended to successful_tickers after store_data returned
RecordSuccess(d_before, d_after) == TRUE

\* an iteration that ends before store_data
Skipped(stage, valid, df, d) ==
    [stage |-> stage, valid |-> valid, store_called |-> FALSE,
     store_fault |-> "none", df |-> df, db |-> d, success |-> FALSE]

\* store_data has returned: successful_tickers.append(ticker)
Stored(df, d, after, sfault) ==
    [stage |-> "stored", valid |-> "true", store_called |-> TRUE,
     store_fault |-> sfault, df |-> df, db |-> after,
     success |-> RecordSuccess(d, after)]

AfterValidate(transformed_df, ok, d, sfault) ==
    IF SkipAfterValidation(ok)
    THEN Skipped("validate_skip", IF ok THEN "true" ELSE "false", transformed_df, d)
    ELSE [Stored(transformed_df, d, AfterStore(transformed_df, d, sfault), sfault)
            EXCEPT !.valid = IF ok THEN "true" ELSE "false"]

AfterTransform(transformed_df, d, fault, sfault) ==
    IF df_empty(transformed_df) THEN Skipped("transform_skip", "none", EmptyDF, d)
    ELSE AfterValidate(transformed_df,
                       validate_pipeline(transformed_df, fault = "validate"),
                       d, sfault)

AfterClean(cleaned_df, d, fault, sfault) ==
    IF df_empty(cleaned_df) THEN Skipped("clean_skip", "none", EmptyDF, d)
    ELSE IF fault = "transform" THEN Skipped("exception", "none", EmptyDF, d)
    ELSE AfterTransform(transform_data(cleaned_df), d, fault, sfault)

\* the body of the try block of one loop iteration
ProcessOne(raw, d, fault, sfault) ==
    IF df_empty(raw) THEN Skipped("ingest_skip", "none", EmptyDF, d)
    ELSE IF fault = "clean" THEN Skipped("exception", "none", EmptyDF, d)
    ELSE AfterClean(clean_data(raw), d, fault, sfault)

\* enter the loop iteration of TICKERS[i], or leave the loop
EnterTicker(i) ==
    IF i <= Len(TICKERS)
    THEN /\ pc' = "ingest"
         /\ idx' = i
         /\ ticker' = TICKERS[i]
         /\ retry_count' = DEFAULT_RETRY_COUNT
         /\ attempt' = 0
         /\ requests' = 0
         /\ attempt_log' = <<>>
         /\ raw_df' = EmptyDF
    ELSE /\ pc' = "summary"
         /\ idx' = i
         /\ UNCHANGED ingestVars

\* The start of a run: the success list, then the removal of an existing file.
StartRun ==
    /\ pc \in {"idle", "done", "raised"}
    /\ run < MaxRuns
    /\ run' = run + 1
    /\ successful_tickers' = <<>>
    /\ failed_tickers' = <<>>
    /\ processed' = <<>>
    /\ outcome' = [t \in Range(TICKERS) |-> Pending]
    /\ sample_data' = <<>>
    /\ IF db.exists
       THEN \E removal_fails \in BOOLEAN :
              IF removal_fails
              THEN /\ pc' = "raised"
                   /\ UNCHANGED <<db, idx, ingestVars>>
                   /\ removed_db' = FALSE
              ELSE /\ db' = RemoveExisting(db)
                   /\ removed_db' = TRUE
                   /\ EnterTicker(1)
       ELSE /\ UNCHANGED db
            /\ removed_db' = FALSE
            /\ EnterTicker(1)
    /\ UNCHANGED <<cleanVars, transVars, storeVars>>

\* The rest of one loop iteration, from the return of ingest_data on.
ProcessTicker ==
    /\ pc = "ingested"
    /\ idx \in 1..Len(TICKERS)
    /\ \E fault \in StageFaults, sfault \in StoreFaults :
         \E r \in {ProcessOne(raw_df, db, fault, sfault)} :
         /\ db' = r.db
         /\ outcome' = [outcome EXCEPT ![ticker] =
                           [stage |-> r.stage, valid |-> r.valid,
                            store_called |-> r.store_called,
                            store_fault |-> r.store_fault, df |-> r.df]]
         /\ successful_tickers' = IF r.success
                                  THEN Append(successful_tickers, ticker)
                                  ELSE successful_tickers
    /\ processed' = Append(processed, ticker)
    /\ EnterTicker(idx + 1)
    /\ UNCHANGED <<run, failed_tickers, removed_db, sample_data>>
    /\ UNCHANGED <<cleanVars, transVars, storeVars>>

\* The summary after the loop and the sample query.
Summary ==
    /\ pc = "summary"
    /\ failed_tickers' = SelectSeq(TICKERS,
                             LAMBDA t : t \notin Range(successful_tickers))
    /\ IF successful_tickers # <<>> /\ db.exists
       THEN \E fault \in RetrieveFaults :
              /\ sample_data' = retrieve_data(db, <<successful_tickers[1]>>,
                                              None, None, fault)
              /\ db' = Connected(db, fault)
       ELSE /\ sample_data' = <<>>
            /\ UNCHANGED db
    /\ pc' = "done"
    /\ UNCHANGED <<run, idx, successful_tickers, processed, outcome, removed_db>>
    /\ UNCHANGED <<ingestVars, cleanVars, transVars, storeVars>>

----------------------------------------------------------------------------
(* The specifications *)

IdleRun ==
    /\ run = 0 /\ idx = 0
    /\ successful_tickers = <<>> /\ failed_tickers = <<>> /\ processed = <<>>
    /\ outcome = [t \in Range(TICKERS) |-> Pending]
    /\ removed_db = FALSE /\ sample_data = <<>>

IdleIngest ==
    /\ ticker = TICKERS[1] /\ retry_count = DEFAULT_RETRY_COUNT
    /\ attempt = 0 /\ requests = 0 /\ attempt_log = <<>> /\ raw_df = EmptyDF

IdleClean == cl_pc = "off" /\ cl_in = EmptyDF /\ cl_once = EmptyDF /\ cl_twice = EmptyDF
IdleTransform == tr_pc = "off" /\ tr_in = EmptyDF /\ tr_out = EmptyDF
IdleStore == st_pc = "off" /\ st_appends = <<>> /\ st_query = <<>> /\ st_result = <<>>

\* run_data_pipeline, run MaxRuns times against the same DB_NAME
Init ==
    /\ pc = "idle" /\ db = NoDB
    /\ IdleRun /\ IdleIngest /\ IdleClean /\ IdleTransform /\ IdleStore

Next == StartRun \/ IngestStep \/ ProcessTicker \/ Summary

Spec == Init /\ [][Next]_vars

\* ingest_data alone, for every retry_count up to MaxRetry
InitIngest ==
    /\ pc = "ingest" /\ db = NoDB
    /\ ticker \in Range(TICKERS) /\ retry_count \in 0..MaxRetry
    /\ attempt = 0 /\ requests = 0 /\ attempt_log = <<>> /\ raw_df = EmptyDF
    /\ IdleRun /\ IdleClean /\ IdleTransform /\ IdleStore

NextIngest == IngestStep

SpecIngest == InitIngest /\ [][NextIngest]_vars

----------------------------------------------------------------------------
(* clean_data alone, applied once and then to its own result *)

CleanCells == {NaN, Num(1 * Unit), Num(2 * Unit), Num(5 * Unit)}

VolumeCell(pat, i, n) ==
    CASE pat = "const" -> Num(100 * Unit)
      [] pat = "lead_nan" -> IF i = 1 THEN NaN ELSE Num((100 + i) * Unit)
      [] pat = "low" -> IF i = n THEN Num(0) ELSE Num((50 + (i % 2)) * Unit)

PriceCell(pat, i) ==
    CASE pat = "hole" -> IF i = 2 THEN NaN ELSE Num((10 + i) * Unit)
      [] pat = "nan" -> NaN

CleanFrame(closes, vpat, ppat, descending) ==
    [cols |-> Range(ohlcv_cols) \cup {"ticker"}, ticker |-> TICKERS[1],
     index_dt |-> TRUE, numeric |-> Range(ohlcv_cols),
     rows |-> AsTuple([i \in DOMAIN closes |->
                Row(TradingDay(IF descending THEN Len(closes) + 1 - i ELSE i),
                    PriceCell(ppat, i), PriceCell(ppat, i), PriceCell(ppat, i),
                    closes[i], VolumeCell(vpat, i, Len(closes)))])]

InitClean ==
    /\ pc = "off" /\ db = NoDB
    /\ cl_pc = "in"
    /\ \E n \in 1..MaxCleanLen :
         \E closes \in [1..n -> CleanCells] :
           \E vpat \in {"const", "lead_nan", "low"}, ppat \in {"hole", "nan"},
              descending \in BOOLEAN :
             cl_in = CleanFrame(closes, vpat, ppat, descending)
    /\ cl_once = EmptyDF /\ cl_twice = EmptyDF
    /\ IdleRun /\ IdleIngest /\ IdleTransform /\ IdleStore

CleanOnce ==
    /\ cl_pc = "in"
    /\ cl_once' = clean_data(cl_in)
    /\ cl_pc' = "once"
    /\ UNCHANGED <<cl_in, cl_twice, pc, db, runVars, ingestVars, transVars, storeVars>>

CleanTwice ==
    /\ cl_pc = "once"
    /\ cl_twice' = clean_data(cl_once)
    /\ cl_pc' = "twice"
    /\ UNCHANGED <<cl_in, cl_once, pc, db, runVars, ingestVars, transVars, storeVars>>

NextClean == CleanOnce \/ CleanTwice

SpecClean == InitClean /\ [][NextClean]_vars

----------------------------------------------------------------------------
(* transform_data alone, for every length up to MaxLen *)

PlainRows(L) ==
    AsTuple([i \in 1..L |->
        Row(TradingDay(i), Num((9 + i) * Unit), Num((11 + i) * Unit),
            Num((9 + i) * Unit), Num((10 + i) * Unit), Num(100 * Unit))])

InitTransform ==
    /\ pc = "off" /\ db = NoDB
    /\ tr_pc = "in"
    /\ \E L \in 0..MaxLen, opt \in SUBSET {"open", "close"} :
         tr_in = [cols |-> {"high", "low", "volume", "ticker"} \cup opt,
                  ticker |-> TICKERS[1], index_dt |-> TRUE,
                  numeric |-> {"high", "low", "volume"} \cup opt,
                  rows |-> PlainRows(L)]
    /\ tr_out = EmptyDF
    /\ IdleRun /\ IdleIngest /\ IdleClean /\ IdleStore

Transform ==
    /\ tr_pc = "in"
    /\ tr_out' = transform_data(tr_in)
    /\ tr_pc' = "out"
    /\ UNCHANGED <<tr_in, pc, db, runVars, ingestVars, cleanVars, storeVars>>

NextTransform == Transform

SpecTransform == InitTransform /\ [][NextTransform]_vars

----------------------------------------------------------------------------
(* store_data calls on one table, then one retrieve_data call *)

\* a frame as the pipeline hands it to store_data
Prepared(t, rows) ==
    transform_data(clean_data(
        [cols |-> Range(required_ohlcv_cols) \cup {"ticker"}, ticker |-> t,
         index_dt |-> TRUE, numeric |-> Range(required_ohlcv_cols),
         rows |-> rows]))

\* three days of two years, not in date order
ScatteredRows ==
    <<Row(TradingDay(47), Num(10 * Unit), Num(12 * Unit), Num(9 * Unit),
          Num(11 * Unit), Num(100 * Unit)),
      Row(TradingDay(50), Num(10 * Unit), Num(12 * Unit), Num(9 * Unit),
          Num(12 * Unit), Num(100 * Unit)),
      Row(TradingDay(2), Num(10 * Unit), Num(12 * Unit), Num(9 * Unit),
          Num(13 * Unit), Num(100 * Unit))>>

Scattered(t) ==
    [Prepared(t, ScatteredRows) EXCEPT !.rows = ScatteredRows]

StoreFrames ==
    {EmptyDF,
     Prepared(ALL_TICKERS[1], RawRows(ShortLen, "spike")), Scattered(ALL_TICKERS[1]),
     Prepared(ALL_TICKERS[2], RawRows(LongLen, "spike")), Scattered(ALL_TICKERS[2])}

QueryTickers == {None, <<ALL_TICKERS[1]>>, <<ALL_TICKERS[2]>>, <<ALL_TICKERS[3]>>}
QueryYears == {None, <<2020>>, <<2021>>}
QueryMonths == {None, <<1>>, <<12>>}

InitStore ==
    /\ pc = "off" /\ db = NoDB
    /\ st_pc = "open" /\ st_appends = <<>> /\ st_query = <<>> /\ st_result = <<>>
    /\ IdleRun /\ IdleIngest /\ IdleClean /\ IdleTransform

StoreStep ==
    /\ st_pc = "open"
    /\ Len(st_appends) < MaxAppends
    /\ \E df \in StoreFrames, fault \in StoreFaults :
         \E after \in {store_data(df, db, fault)} :
           /\ db' = after
           /\ st_appends' = Append(st_appends,
                                [ticker |-> df.ticker, rows |-> df.rows,
                                 ok |-> Len(after.rows) > Len(db.rows)])
    /\ UNCHANGED <<st_pc, st_query, st_result>>
    /\ UNCHANGED <<pc, runVars, ingestVars, cleanVars, transVars>>

RetrieveStep ==
    /\ st_pc = "open"
    /\ \E tkr \in QueryTickers, year \in QueryYears, month \in QueryMonths,
          fault \in RetrieveFaults :
         /\ st_query' = [ticker |-> tkr, year |-> year, month |-> month,
                         fault |-> fault]
         /\ st_result' = retrieve_data(db, tkr, year, month, fault)
         /\ db' = Connected(db, fault)
    /\ st_pc' = "retrieved"
    /\ UNCHANGED st_appends
    /\ UNCHANGED <<pc, runVars, ingestVars, cleanVars, transVars>>

NextStore == StoreStep \/ RetrieveStep

SpecStore == InitStore /\ [][NextStore]_vars

----------------------------------------------------------------------------
(* Properties *)

RowsOfTicker(rows, t) == SelectSeq(rows, LAMBDA r : r.ticker = t)

\* the stored rows are the rows of the frame, one for one
SameSeries(stored, df) ==
    /\ Len(stored) = Len(df.rows)
    /\ \A i \in DOMAIN stored :
          /\ stored[i].date = df.rows[i].date
          /\ stored[i].open = df.rows[i].open
          /\ stored[i].high = df.rows[i].high
          /\ stored[i].low = df.rows[i].low
          /\ stored[i].close = df.rows[i].close
          /\ stored[i].volume = df.rows[i].volume

InLoop == pc \in {"ingest", "ingested", "summary", "done"}

\* C1: a ticker whose transformed series validate_pipeline rejected (a failed
\* check or an unexpected error) had no store_data call in this run and has
\* no row in the store.
C1_ValidationGate ==
    InLoop =>
      \A t \in Range(TICKERS) :
         outcome[t].valid = "false" =>
            /\ ~outcome[t].store_called
            /\ RowsOfTicker(db.rows, t) = <<>>

C1_Witness ==
    /\ pc = "done"
    /\ db.rows # <<>>
    /\ \E t \in Range(TICKERS) :
          /\ outcome[t].stage = "validate_skip"
          /\ outcome[t].valid = "false"
          /\ ~ChecksPass(outcome[t].df)

\* C2: run_data_pipeline never propagates an error, whatever fails (the
\* removal of the existing store included), and a finished run has processed
\* every ticker of the list in list order.
C2_RunAlwaysCompletes ==
    /\ pc # "raised"
    /\ pc = "done" => processed = TICKERS

\* C3: the provider is requested at most retry_count times, a request after
\* the first follows an attempt that raised, and when every attempt raised
\* ingest_data returns the empty frame.
C3_BoundedRetry ==
    /\ requests <= retry_count
    /\ \A i \in DOMAIN attempt_log : i > 1 => attempt_log[i - 1].raised
    /\ (pc = "ingested" /\ \A i \in DOMAIN attempt_log : attempt_log[i].raised)
          => raw_df = EmptyDF

C3_Witness ==
    /\ pc = "ingested"
    /\ retry_count = MaxRetry
    /\ requests = retry_count
    /\ \A i \in DOMAIN attempt_log : attempt_log[i].raised
    /\ raw_df = EmptyDF

\* C4: an attempt whose response has no row, or lacks a required column after
\* the normalisation of the labels, is the last request of the call, and the
\* call returns the empty frame.
C4_StructuralNoRetry ==
    \A i \in DOMAIN attempt_log :
       (attempt_log[i].zero_rows \/ attempt_log[i].lacks) =>
          /\ i = Len(attempt_log)
          /\ requests = i
          /\ pc = "ingested"
          /\ raw_df = EmptyDF

C4_Witness ==
    /\ pc = "ingested"
    /\ retry_count = MaxRetry
    /\ requests = 2
    /\ attempt_log[1].raised
    /\ attempt_log[2].lacks /\ ~attempt_log[2].zero_rows

\* C5: for every ticker, the store holds every row of the series that passed
\* validation or no row of it, also after a failed write; a ticker that did
\* not reach store_data has no row.
C5_AllOrNothing ==
    InLoop =>
      \A t \in Range(TICKERS) :
         \/ RowsOfTicker(db.rows, t) = <<>>
         \/ /\ outcome[t].stage = "stored"
            /\ outcome[t].valid = "true"
            /\ SameSeries(RowsOfTicker(db.rows, t), outcome[t].df)

C5_Witness ==
    /\ pc = "done"
    /\ \E t, u \in Range(TICKERS) :
          /\ outcome[t].store_called /\ outcome[t].store_fault = "insert"
          /\ RowsOfTicker(db.rows, t) = <<>>
          /\ outcome[u].store_called
          /\ RowsOfTicker(db.rows, u) # <<>>

\* the write of a ticker's store_data call did not succeed
StoreFailed(t) == outcome[t].store_called /\ RowsOfTicker(db.rows, t) = <<>>

\* C6: a ticker whose write failed inside store_data is in successful_tickers
\* and not in the failed list, and the run goes on to process every ticker.
C6_StoreFailureCaught ==
    /\ InLoop =>
         \A t \in Range(processed) :
            StoreFailed(t) =>
               /\ t \in Range(successful_tickers)
               /\ t \notin Range(failed_tickers)
    /\ pc = "done" => processed = TICKERS

C6_Witness ==
    /\ pc = "done"
    /\ StoreFailed(TICKERS[1])
    /\ outcome[TICKERS[1]].store_fault # "none"
    /\ TICKERS[1] \in Range(successful_tickers)
    /\ processed = TICKERS

\* the quartiles a clean_data pass computes for a column
Quartiles(rows, c) ==
    IF SortedValues(Column(rows, c)) = <<>> THEN <<>>
    ELSE <<Quantile(SortedValues(Column(rows, c)), 1),
           Quantile(SortedValues(Column(rows, c)), 3)>>

Dates(rows) == Column(rows, "date")

\* C7 as stated: the second application of clean_data changes nothing.
C7_Idempotent ==
    cl_pc = "twice" => cl_twice = cl_once

\* C7 as amended: the second application drops and reorders no row, fills no
\* value and leaves open, high and low as they are; close and volume are left
\* as they are when the first application's clipping did not move the
\* quartiles of the column.
C7_IdempotentUpToClipping ==
    cl_pc = "twice" =>
      /\ cl_twice.cols = cl_once.cols
      /\ Dates(cl_twice.rows) = Dates(cl_once.rows)
      /\ \A c \in {"open", "high", "low"} :
            Column(cl_twice.rows, c) = Column(cl_once.rows, c)
      /\ \A c \in {"close", "volume"} :
            /\ \A i \in DOMAIN cl_once.rows :
                  IsNaN(cl_twice.rows[i][c]) <=> IsNaN(cl_once.rows[i][c])
            /\ Quartiles(cl_once.rows, c) = Quartiles(FillAll(cl_in.rows, cl_in.cols), c)
                  => Column(cl_twice.rows, c) = Column(cl_once.rows, c)

\* a series the first application filled, clipped and reordered, and the
\* second left alone
C7_Witness ==
    /\ cl_pc = "twice"
    /\ cl_twice = cl_once
    /\ Dates(cl_once.rows) # Dates(cl_in.rows)
    /\ \E i \in DOMAIN cl_in.rows : IsNaN(cl_in.rows[i].close)
    /\ Column(cl_once.rows, "volume") # Column(SortIndex(FillAll(cl_in.rows, cl_in.cols)), "volume")

\* C8: for a non-empty series of length L with a close column, each indicator
\* column is present exactly from its minimum length on, Daily_Return is
\* always present, and every row is kept.
C8_IndicatorGating ==
    (tr_pc = "out" /\ ~df_empty(tr_in) /\ "close" \in tr_in.cols) =>
       LET L == Len(tr_in.rows)
           has(c) == c \in tr_out.cols
       IN  /\ has("SMA_10") <=> L >= 10
           /\ has("EMA_10") <=> L >= 10
           /\ has("SMA_50") <=> L >= 50
           /\ has("EMA_50") <=> L >= 50
           /\ \A c \in {"BB_Middle", "BB_StdDev", "BB_Upper", "BB_Lower"} :
                 has(c) <=> L >= 20
           /\ has("RSI") <=> L >= 14
           /\ has("Volatility_20D") <=> L >= 20
           /\ has("Daily_Return")
           /\ tr_out.rows = tr_in.rows
           /\ tr_in.cols \subseteq tr_out.cols

C8_Witness ==
    /\ tr_pc = "out"
    /\ "close" \in tr_in.cols
    /\ Len(tr_in.rows) = 50
    /\ {"SMA_50", "EMA_50", "RSI", "BB_Upper", "Volatility_20D"} \subseteq tr_out.cols

Count(seq, x) == Cardinality({i \in DOMAIN seq : seq[i] = x})

\* the rows of the appends that were written for ticker x
AppendedFor(x) ==
    {i \in DOMAIN st_appends : st_appends[i].ticker = x /\ st_appends[i].ok}

RECURSIVE SumRows(_)
SumRows(I) ==
    IF I = {} THEN 0
    ELSE LET i == CHOOSE j \in I : TRUE
         IN  Len(st_appends[i].rows) + SumRows(I \ {i})

\* does a stored row pass the filters that were given
Wanted(r, q) ==
    /\ q.ticker # None => r.ticker = q.ticker[1]
    /\ q.year # None => r.year = q.year[1]
    /\ q.month # None => r.month = q.month[1]

====
